---- MODULE Spec2Model ----
(***************************************************************************)
(* Model of custom_components/cardata/device_tracker.py: the setup entry   *)
(* point that creates one location tracker per vehicle with coordinate     *)
(* data, and the BMWCarDataDeviceTracker entity (subscription lifecycle,   *)
(* update filter, latitude / longitude / available /                       *)
(* extra_state_attributes properties) over the coordinator's signal cache. *)
(***************************************************************************)
EXTENDS Integers, Sequences, FiniteSets, TLC

(***************************************************************************)
(* Bounds and input sets.                                                  *)
(***************************************************************************)
\* Largest number of readings the coordinator cache holds.
MaxPresent == 2
\* Largest number of (vin, descriptor) pairs one iter_descriptors() yields.
MaxYield == 2

VINS == {"VIN_A", "VIN_B"}

(***************************************************************************)
(* Descriptors (device_tracker.py lines 22-25).                            *)
(***************************************************************************)
LATITUDE_DESCRIPTOR == "vehicle.cabin.infotainment.navigation.currentLocation.latitude"
LONGITUDE_DESCRIPTOR == "vehicle.cabin.infotainment.navigation.currentLocation.longitude"
HEADING_DESCRIPTOR == "vehicle.cabin.infotainment.navigation.currentLocation.heading"
GPS_FIX_STATUS_DESCRIPTOR == "vehicle.cabin.infotainment.navigation.currentLocation.fixStatus"
\* A descriptor of the coordinator that is none of the four above.
OTHER_DESCRIPTOR == "vehicle.vehicle.travelledDistance"

\* The list literal tested by _handle_update (line 121).
LocationDescriptors ==
    {LATITUDE_DESCRIPTOR, LONGITUDE_DESCRIPTOR, HEADING_DESCRIPTOR, GPS_FIX_STATUS_DESCRIPTOR}

DESCS == LocationDescriptors \cup {OTHER_DESCRIPTOR}

(***************************************************************************)
(* Python values.  Every value is a record of the same shape: t is the     *)
(* Python type name.  A str carries its Unicode code points in s.  An int  *)
(* carries its sign in n (-1, 0, 1) and the decimal digits of its          *)
(* magnitude in s (most significant first, no leading zero), so that it is *)
(* not limited to machine width.  A finite float is written as the decimal *)
(* n * 0.s * 10^e (s without leading or trailing zeros) and stands for the *)
(* double nearest to that decimal; a non-finite float has x "inf" or "nan".*)
(* A raised exception has its name in x.                                   *)
(***************************************************************************)
PyValue(t, n, e, s, x) == [t |-> t, n |-> n, e |-> e, s |-> s, x |-> x]
PyNone == PyValue("NoneType", 0, 0, << >>, "")
PyBool(b) == PyValue("bool", IF b THEN 1 ELSE 0, 0, << >>, "")
PyStr(cs) == PyValue("str", 0, 0, cs, "")
PyList == PyValue("list", 0, 0, << >>, "")
\* An int from its sign and the digits of its magnitude.
PyInt(sign, digits) == PyValue("int", sign, 0, digits, "")
\* A finite float sign * 0.digits * 10^e.
PyFloat(sign, digits, e) == PyValue("float", sign, e, digits, "")
PyFloatSpecial(sign, name) == PyValue("float", sign, 0, << >>, name)
\* An exception leaving the called function.
Raised(exc) == PyValue("raise", 0, 0, << >>, exc)

IsNone(v) == v.t = "NoneType"

\* Python's ==  between a stored value and a str literal (line 181).
EqualsStr(v, cs) == v.t = "str" /\ v.s = cs

\* "NO_FIX"
NO_FIX == <<78, 79, 95, 70, 73, 88>>

(***************************************************************************)
(* float(x) (lines 151 and 164), computed as CPython 3.11 computes it.  A  *)
(* float is returned as it is; an int or bool converts, an int that rounds *)
(* to 2^1024 or more raises OverflowError; a str is parsed: white space is *)
(* stripped, every Unicode decimal digit counts as its digit, and the rest *)
(* must be [sign] (inf | infinity | nan | decimal [exponent]) with single  *)
(* underscores allowed between digits, else ValueError; a decimal that     *)
(* rounds to 2^1024 or more is inf, one of at most 2^-1075 is 0.0; any     *)
(* other type is a TypeError.                                              *)
(***************************************************************************)
\* The code points of the zeros of the Unicode decimal digit ranges; the
\* digits 1..9 of a range follow its zero.
DigitZeros ==
    {48, 1632, 1776, 1984, 2406, 2534, 2662, 2790, 2918, 3046, 3174, 3302,
     3430, 3558, 3664, 3792, 3872, 4160, 4240, 6112, 6160, 6470, 6608, 6784,
     6800, 6992, 7088, 7232, 7248, 42528, 43216, 43264, 43472, 43504, 43600,
     44016, 65296, 66720, 68912, 69734, 69872, 69942, 70096, 70384, 70736,
     70864, 71248, 71360, 71472, 71904, 72016, 72784, 73040, 73120, 92768,
     92864, 93008, 120782, 120792, 120802, 120812, 120822, 123200, 123632,
     125264, 130032}
IsDigit(c) == c \in 48..57 \/ \E z \in DigitZeros : c - z \in 0..9
DigitVal(c) ==
    IF c \in 48..57 THEN c - 48
    ELSE c - (CHOOSE z \in DigitZeros : c - z \in 0..9)

\* The code points float() strips: \t \n \v \f \r, space, and the Unicode
\* white space above U+007F.
Spaces ==
    {9, 10, 11, 12, 13, 32, 133, 160, 5760, 8232, 8233, 8239, 8287, 12288}
        \cup (8192..8202)
IsSpace(c) == c \in Spaces

\* ASCII lower case, as the inf / nan match uses it.
Lower(c) == IF c \in 65..90 THEN c + 32 ELSE c

\* The first and the last index of ds whose element is not in the set skip
\* (0 when there is none).
FirstKept(ds, skip) ==
    IF \A i \in 1..Len(ds) : ds[i] \in skip THEN 0
    ELSE CHOOSE i \in 1..Len(ds) :
             ds[i] \notin skip /\ \A j \in 1..(i - 1) : ds[j] \in skip
LastKept(ds, skip) ==
    IF \A i \in 1..Len(ds) : ds[i] \in skip THEN 0
    ELSE CHOOSE i \in 1..Len(ds) :
             ds[i] \notin skip /\ \A j \in (i + 1)..Len(ds) : ds[j] \in skip

LStrip(cs) ==
    IF FirstKept(cs, Spaces) = 0 THEN << >>
    ELSE SubSeq(cs, FirstKept(cs, Spaces), Len(cs))

RStrip(cs) ==
    IF LastKept(cs, Spaces) = 0 THEN << >>
    ELSE SubSeq(cs, 1, LastKept(cs, Spaces))

\* A non-empty run of digits in which single underscores (95) may separate
\* digits.
ValidDigitPart(cs) ==
    /\ Len(cs) > 0
    /\ \A i \in 1..Len(cs) : IsDigit(cs[i]) \/ cs[i] = 95
    /\ IsDigit(cs[1]) /\ IsDigit(cs[Len(cs)])
    /\ \A i \in 1..(Len(cs) - 1) : ~(cs[i] = 95 /\ cs[i + 1] = 95)

\* The digit values of a digit part, underscores dropped.
NotUnderscore(c) == c # 95
DigitsOf(cs) ==
    LET ds == IF \A i \in 1..Len(cs) : NotUnderscore(cs[i]) THEN cs
              ELSE SelectSeq(cs, NotUnderscore)
    IN  [i \in 1..Len(ds) |-> DigitVal(ds[i])]

StripLeadingZeros(ds) ==
    IF FirstKept(ds, {0}) = 0 THEN << >>
    ELSE SubSeq(ds, FirstKept(ds, {0}), Len(ds))

StripTrailingZeros(ds) ==
    IF LastKept(ds, {0}) = 0 THEN << >>
    ELSE SubSeq(ds, 1, LastKept(ds, {0}))

RECURSIVE DigitsToNat(_)
DigitsToNat(ds) ==
    IF Len(ds) = 0 THEN 0
    ELSE DigitsToNat(SubSeq(ds, 1, Len(ds) - 1)) * 10 + ds[Len(ds)]

\* The limits of the parser behind float() (dtoa.c): a literal has at most
\* MAX_DIGITS digits after its leading zeros and at most MAX_DIGITS digits
\* after the point, and an exponent beyond nine digits or MAX_ABS_EXP counts
\* as MAX_ABS_EXP.
MAX_DIGITS == 1000000000
MAX_ABS_EXP == 1100000000

\* The absolute value of an exponent from its digits.
ExponentValue(ds) ==
    LET nz == StripLeadingZeros(ds)
    IN  IF Len(nz) > 9 THEN MAX_ABS_EXP
        ELSE IF DigitsToNat(nz) > MAX_ABS_EXP THEN MAX_ABS_EXP
        ELSE DigitsToNat(nz)

\* The order (-1, 0, 1) of the fractions 0.a and 0.b, neither with trailing
\* zeros.
CompareFractions(a, b) ==
    LET n == IF Len(a) < Len(b) THEN Len(a) ELSE Len(b)
    IN  IF \E i \in 1..n : a[i] # b[i]
        THEN LET k == CHOOSE i \in 1..n :
                          a[i] # b[i] /\ \A j \in 1..(i - 1) : a[j] = b[j]
             IN  IF a[k] < b[k] THEN -1 ELSE 1
        ELSE IF Len(a) < Len(b) THEN -1
        ELSE IF Len(a) > Len(b) THEN 1
        ELSE 0

\* The order of 0.a * 10^p and 0.b * 10^q, a and b starting with a non-zero
\* digit.
CompareMagnitudes(a, p, b, q) ==
    IF p < q THEN -1 ELSE IF p > q THEN 1 ELSE CompareFractions(a, b)

\* 2^1024 - 2^970, half way between the largest double and 2^1024, as
\* 0.digits * 10^309: a magnitude from here on rounds out of range.
OverflowDigits ==
    <<1, 7, 9, 7, 6, 9, 3, 1, 3, 4, 8, 6, 2, 3, 1, 5, 8, 0, 7, 9, 3, 7, 2,
      8, 9, 7, 1, 4, 0, 5, 3, 0, 3, 4, 1, 5, 0, 7, 9, 9, 3, 4, 1, 3, 2, 7,
      1, 0, 0, 3, 7, 8, 2, 6, 9, 3, 6, 1, 7, 3, 7, 7, 8, 9, 8, 0, 4, 4, 4,
      9, 6, 8, 2, 9, 2, 7, 6, 4, 7, 5, 0, 9, 4, 6, 6, 4, 9, 0, 1, 7, 9, 7,
      7, 5, 8, 7, 2, 0, 7, 0, 9, 6, 3, 3, 0, 2, 8, 6, 4, 1, 6, 6, 9, 2, 8,
      8, 7, 9, 1, 0, 9, 4, 6, 5, 5, 5, 5, 4, 7, 8, 5, 1, 9, 4, 0, 4, 0, 2,
      6, 3, 0, 6, 5, 7, 4, 8, 8, 6, 7, 1, 5, 0, 5, 8, 2, 0, 6, 8, 1, 9, 0,
      8, 9, 0, 2, 0, 0, 0, 7, 0, 8, 3, 8, 3, 6, 7, 6, 2, 7, 3, 8, 5, 4, 8,
      4, 5, 8, 1, 7, 7, 1, 1, 5, 3, 1, 7, 6, 4, 4, 7, 5, 7, 3, 0, 2, 7, 0,
      0, 6, 9, 8, 5, 5, 5, 7, 1, 3, 6, 6, 9, 5, 9, 6, 2, 2, 8, 4, 2, 9, 1,
      4, 8, 1, 9, 8, 6, 0, 8, 3, 4, 9, 3, 6, 4, 7, 5, 2, 9, 2, 7, 1, 9, 0,
      7, 4, 1, 6, 8, 4, 4, 4, 3, 6, 5, 5, 1, 0, 7, 0, 4, 3, 4, 2, 7, 1, 1,
      5, 5, 9, 6, 9, 9, 5, 0, 8, 0, 9, 3, 0, 4, 2, 8, 8, 0, 1, 7, 7, 9, 0,
      4, 1, 7, 4, 4, 9, 7, 7, 9, 2>>
OverflowExponent == Len(OverflowDigits)

\* 2^-1075, half the smallest positive double, as 0.digits * 10^(-323): a
\* magnitude up to here rounds to zero.
UnderflowDigits ==
    <<2, 4, 7, 0, 3, 2, 8, 2, 2, 9, 2, 0, 6, 2, 3, 2, 7, 2, 0, 8, 8, 2, 8,
      4, 3, 9, 6, 4, 3, 4, 1, 1, 0, 6, 8, 6, 1, 8, 2, 5, 2, 9, 9, 0, 1, 3,
      0, 7, 1, 6, 2, 3, 8, 2, 2, 1, 2, 7, 9, 2, 8, 4, 1, 2, 5, 0, 3, 3, 7,
      7, 5, 3, 6, 3, 5, 1, 0, 4, 3, 7, 5, 9, 3, 2, 6, 4, 9, 9, 1, 8, 1, 8,
      0, 8, 1, 7, 9, 9, 6, 1, 8, 9, 8, 9, 8, 2, 8, 2, 3, 4, 7, 7, 2, 2, 8,
      5, 8, 8, 6, 5, 4, 6, 3, 3, 2, 8, 3, 5, 5, 1, 7, 7, 9, 6, 9, 8, 9, 8,
      1, 9, 9, 3, 8, 7, 3, 9, 8, 0, 0, 5, 3, 9, 0, 9, 3, 9, 0, 6, 3, 1, 5,
      0, 3, 5, 6, 5, 9, 5, 1, 5, 5, 7, 0, 2, 2, 6, 3, 9, 2, 2, 9, 0, 8, 5,
      8, 3, 9, 2, 4, 4, 9, 1, 0, 5, 1, 8, 4, 4, 3, 5, 9, 3, 1, 8, 0, 2, 8,
      4, 9, 9, 3, 6, 5, 3, 6, 1, 5, 2, 5, 0, 0, 3, 1, 9, 3, 7, 0, 4, 5, 7,
      6, 7, 8, 2, 4, 9, 2, 1, 9, 3, 6, 5, 6, 2, 3, 6, 6, 9, 8, 6, 3, 6, 5,
      8, 4, 8, 0, 7, 5, 7, 0, 0, 1, 5, 8, 5, 7, 6, 9, 2, 6, 9, 9, 0, 3, 7,
      0, 6, 3, 1, 1, 9, 2, 8, 2, 7, 9, 5, 5, 8, 5, 5, 1, 3, 3, 2, 9, 2, 7,
      8, 3, 4, 3, 3, 8, 4, 0, 9, 3, 5, 1, 9, 7, 8, 0, 1, 5, 5, 3, 1, 2, 4,
      6, 5, 9, 7, 2, 6, 3, 5, 7, 9, 5, 7, 4, 6, 2, 2, 7, 6, 6, 4, 6, 5, 2,
      7, 2, 8, 2, 7, 2, 2, 0, 0, 5, 6, 3, 7, 4, 0, 0, 6, 4, 8, 5, 4, 9, 9,
      9, 7, 7, 0, 9, 6, 5, 9, 9, 4, 7, 0, 4, 5, 4, 0, 2, 0, 8, 2, 8, 1, 6,
      6, 2, 2, 6, 2, 3, 7, 8, 5, 7, 3, 9, 3, 4, 5, 0, 7, 3, 6, 3, 3, 9, 0,
      0, 7, 9, 6, 7, 7, 6, 1, 9, 3, 0, 5, 7, 7, 5, 0, 6, 7, 4, 0, 1, 7, 6,
      3, 2, 4, 6, 7, 3, 6, 0, 0, 9, 6, 8, 9, 5, 1, 3, 4, 0, 5, 3, 5, 5, 3,
      7, 4, 5, 8, 5, 1, 6, 6, 6, 1, 1, 3, 4, 2, 2, 3, 7, 6, 6, 6, 7, 8, 6,
      0, 4, 1, 6, 2, 1, 5, 9, 6, 8, 0, 4, 6, 1, 9, 1, 4, 4, 6, 7, 2, 9, 1,
      8, 4, 0, 3, 0, 0, 5, 3, 0, 0, 5, 7, 5, 3, 0, 8, 4, 9, 0, 4, 8, 7, 6,
      5, 3, 9, 1, 7, 1, 1, 3, 8, 6, 5, 9, 1, 6, 4, 6, 2, 3, 9, 5, 2, 4, 9,
      1, 2, 6, 2, 3, 6, 5, 3, 8, 8, 1, 8, 7, 9, 6, 3, 6, 2, 3, 9, 3, 7, 3,
      2, 8, 0, 4, 2, 3, 8, 9, 1, 0, 1, 8, 6, 7, 2, 3, 4, 8, 4, 9, 7, 6, 6,
      8, 2, 3, 5, 0, 8, 9, 8, 6, 3, 3, 8, 8, 5, 8, 7, 9, 2, 5, 6, 2, 8, 3,
      0, 2, 7, 5, 5, 9, 9, 5, 6, 5, 7, 5, 2, 4, 4, 5, 5, 5, 0, 7, 2, 5, 5,
      1, 8, 9, 3, 1, 3, 6, 9, 0, 8, 3, 6, 2, 5, 4, 7, 7, 9, 1, 8, 6, 9, 4,
      8, 6, 6, 7, 9, 9, 4, 9, 6, 8, 3, 2, 4, 0, 4, 9, 7, 0, 5, 8, 2, 1, 0,
      2, 8, 5, 1, 3, 1, 8, 5, 4, 5, 1, 3, 9, 6, 2, 1, 3, 8, 3, 7, 7, 2, 2,
      8, 2, 6, 1, 4, 5, 4, 3, 7, 6, 9, 3, 4, 1, 2, 5, 3, 2, 0, 9, 8, 5, 9,
      1, 3, 2, 7, 6, 6, 7, 2, 3, 6, 3, 2, 8, 1, 2, 5>>
UnderflowExponent == 0 - 323

FloatOk(v) == [ok |-> TRUE, exc |-> "", val |-> v]
FloatError(exc) == [ok |-> FALSE, exc |-> exc, val |-> PyNone]

\* The double of the literal sign * intDigits.fracDigits * 10^exp of a str, or
\* ValueError beyond the parser's limits.  The digits after the leading zeros
\* are ndigits many, and the value is 0.sig * 10^q.
DecimalToFloat(sign, intDigits, fracDigits, exp) ==
    LET ip == StripLeadingZeros(intDigits)
        fp == IF Len(ip) = 0 THEN StripLeadingZeros(fracDigits) ELSE fracDigits
        ndigits == Len(ip) + Len(fp)
        fraclen == Len(fracDigits)
        sig == StripTrailingZeros(ip \o fp)
        q == (exp - fraclen) + ndigits
    IN  IF ndigits > MAX_DIGITS \/ fraclen > MAX_DIGITS
        THEN FloatError("ValueError")
        ELSE IF Len(sig) = 0 THEN FloatOk(PyFloat(0, << >>, 0))
        ELSE IF CompareMagnitudes(sig, q, OverflowDigits, OverflowExponent) >= 0
        THEN FloatOk(PyFloatSpecial(sign, "inf"))
        ELSE IF CompareMagnitudes(sig, q, UnderflowDigits, UnderflowExponent) <= 0
        THEN FloatOk(PyFloat(0, << >>, 0))
        ELSE FloatOk(PyFloat(sign, sig, q))

\* int.__float__: the double of an int, or OverflowError.
IntToFloat(v) ==
    LET sig == StripTrailingZeros(v.s)
    IN  IF v.n = 0 THEN FloatOk(PyFloat(0, << >>, 0))
        ELSE IF CompareMagnitudes(sig, Len(v.s), OverflowDigits, OverflowExponent) >= 0
        THEN FloatError("OverflowError")
        ELSE FloatOk(PyFloat(v.n, sig, Len(v.s)))

\* The unsigned part of a float literal: e is 101, E 69, "." 46, + 43, - 45.
ParseUnsigned(cs, sign) ==
    LET word == [i \in 1..Len(cs) |-> Lower(cs[i])]
        ePos == {i \in 1..Len(cs) : cs[i] \in {101, 69}}
    IN  IF word \in {<<105, 110, 102>>, <<105, 110, 102, 105, 110, 105, 116, 121>>}
        THEN FloatOk(PyFloatSpecial(sign, "inf"))
        ELSE IF word = <<110, 97, 110>>
        THEN FloatOk(PyFloatSpecial(1, "nan"))
        ELSE IF Cardinality(ePos) > 1
        THEN FloatError("ValueError")
        ELSE
        LET k == IF ePos = {} THEN Len(cs) + 1 ELSE CHOOSE i \in ePos : TRUE
            mant == SubSeq(cs, 1, k - 1)
            expo == SubSeq(cs, k + 1, Len(cs))
            expSign == IF Len(expo) > 0 /\ Head(expo) = 45 THEN -1 ELSE 1
            expDigits == IF Len(expo) > 0 /\ Head(expo) \in {43, 45}
                         THEN Tail(expo) ELSE expo
            dots == {i \in 1..Len(mant) : mant[i] = 46}
            d == IF dots = {} THEN Len(mant) + 1 ELSE CHOOSE i \in dots : TRUE
            intPart == SubSeq(mant, 1, d - 1)
            fracPart == SubSeq(mant, d + 1, Len(mant))
        IN  IF \/ Cardinality(dots) > 1
               \/ (ePos # {} /\ ~ValidDigitPart(expDigits))
               \/ (Len(intPart) = 0 /\ Len(fracPart) = 0)
               \/ (Len(intPart) > 0 /\ ~ValidDigitPart(intPart))
               \/ (Len(fracPart) > 0 /\ ~ValidDigitPart(fracPart))
            THEN FloatError("ValueError")
            ELSE DecimalToFloat(
                     sign, DigitsOf(intPart), DigitsOf(fracPart),
                     IF ePos = {} THEN 0
                     ELSE expSign * ExponentValue(DigitsOf(expDigits)))

ParseFloat(chars) ==
    LET cs == RStrip(LStrip(chars))
        signed == Len(cs) > 0 /\ Head(cs) \in {43, 45}
        sign == IF signed /\ Head(cs) = 45 THEN -1 ELSE 1
    IN  ParseUnsigned(IF signed THEN Tail(cs) ELSE cs, sign)

FloatOf(v) ==
    CASE v.t = "float" -> FloatOk(v)
      [] v.t = "int" -> IntToFloat(v)
      [] v.t = "bool" -> FloatOk(IF v.n = 0 THEN PyFloat(0, << >>, 0) ELSE PyFloat(1, <<1>>, 1))
      [] v.t = "str" -> ParseFloat(v.s)
      [] OTHER -> FloatError("TypeError")

(***************************************************************************)
(* The coordinator's signal cache: one reading per (vin, descriptor), or   *)
(* none.  The model keeps the readings this file looks up; get_state of    *)
(* any other key finds nothing.                                            *)
(***************************************************************************)
Keys == VINS \X LocationDescriptors
NoState == [exists |-> FALSE, value |-> PyNone]
State(v) == [exists |-> TRUE, value |-> v]
EmptyCache == [k \in Keys |-> NoState]

\* The int 48, the str "11.5", the str "FIX" and the int 10^400.
Int48 == PyInt(1, <<4, 8>>)
Str11_5 == PyStr(<<49, 49, 46, 53>>)
StrFIX == PyStr(<<70, 73, 88>>)
HugeInt == PyInt(1, [i \in 1..401 |-> IF i = 1 THEN 1 ELSE 0])

\* The values the coordinator may store under a descriptor.
CoordinateValues == {PyNone, Int48, Str11_5, PyStr(NO_FIX), PyList, HugeInt}
FixValues == {PyNone, PyStr(NO_FIX), StrFIX}
HeadingValues == {PyNone, Int48}
StoredValues(d) ==
    CASE d \in {LATITUDE_DESCRIPTOR, LONGITUDE_DESCRIPTOR} -> CoordinateValues
      [] d = GPS_FIX_STATUS_DESCRIPTOR -> FixValues
      [] OTHER -> HeadingValues

VARIABLES
    cache,        \* coordinator: (vin, descriptor) -> reading
    unsubscribe,  \* tracker -> its _unsubscribe field
    dispatchers,  \* the trackers whose _handle_update is connected to signal_update
    op,           \* the operation that ran last
    self,         \* the tracker it ran on ("" when none)
    arg,          \* the (vin, descriptor) it was given
    ret,          \* the value it returned (a property read)
    attrs,        \* the dict extra_state_attributes returned
    yielded,      \* VIN -> the number of pairs iter_descriptors() yielded for it
    entities,     \* the list `entities` the last setup built
    addCalls,     \* the lists the last setup passed to async_add_entities
    calls         \* tracker -> the platform calls the last operation made for it

vars == <<cache, unsubscribe, dispatchers, op, self, arg, ret, attrs,
          yielded, entities, addCalls, calls>>

\* get_state(vin, descriptor): the reading, or absence.
GetState(vin, d) == IF <<vin, d>> \in Keys THEN cache[<<vin, d>>] ELSE NoState

NoArg == [vin |-> "", descriptor |-> ""]
NoCalls == [t \in VINS |-> << >>]
NoYield == [v \in VINS |-> 0]
EmptyDict == [k \in {} |-> PyNone]
DictSet(dict, k, v) == [x \in (DOMAIN dict) \cup {k} |-> IF x = k THEN v ELSE dict[x]]

Present == {k \in Keys : cache[k].exists}

(***************************************************************************)
(* async_setup_entry (lines 28-66).                                        *)
(***************************************************************************)
\* Mutant: the VIN is never recorded as processed.
AlreadyProcessedNever(vin, vins_processed) == FALSE

\* `vin not in vins_processed` negated (line 43).
AlreadyProcessed(vin, vins_processed) ==
    \E i \in 1..Len(vins_processed) : vins_processed[i] = vin

\* Mutant: any reading of the VIN counts as location data.
HasAnyData(vin) == \E d \in DESCS : GetState(vin, d).exists

\* `lat_state is not None or lon_state is not None` (lines 46-47, 56).
HasLocationData(vin) ==
    LET lat_state == GetState(vin, LATITUDE_DESCRIPTOR)
        lon_state == GetState(vin, LONGITUDE_DESCRIPTOR)
    IN  lat_state.exists \/ lon_state.exists

\* The for loop (lines 41-60) over the pairs still to come; a tracker is
\* written as the VIN it was constructed with.
RECURSIVE SetupLoop(_, _, _)
SetupLoop(ys, vins_processed, ents) ==
    IF Len(ys) = 0 THEN ents
    ELSE LET vin == Head(ys)[1]
         IN  IF ~AlreadyProcessed(vin, vins_processed)
             THEN SetupLoop(Tail(ys), Append(vins_processed, vin),
                            IF HasLocationData(vin) THEN Append(ents, vin) ELSE ents)
             ELSE SetupLoop(Tail(ys), vins_processed, ents)

\* What iter_descriptors(binary=False) may yield: pairs of any VINs, in any
\* order and with repetitions.  The loop discards the descriptor of a pair
\* (`for vin, _`), so one descriptor stands for all.
YieldDescs == {OTHER_DESCRIPTOR}
YieldSeqs == UNION {[1..n -> VINS \X YieldDescs] : n \in 0..MaxYield}

AsyncSetupEntry ==
    \E ys \in YieldSeqs :
        LET ents == SetupLoop(ys, << >>, << >>)
        IN  /\ op' = "async_setup_entry"
            /\ self' = ""
            /\ arg' = NoArg
            /\ ret' = PyNone
            /\ attrs' = EmptyDict
            /\ yielded' = [v \in VINS |-> Cardinality({i \in 1..Len(ys) : ys[i][1] = v})]
            /\ entities' = ents
            /\ addCalls' = IF Len(ents) > 0 THEN <<ents>> ELSE << >>
            /\ calls' = NoCalls
            /\ UNCHANGED <<cache, unsubscribe, dispatchers>>

(***************************************************************************)
(* BMWCarDataDeviceTracker; a tracker is named by its _vin.                *)
(***************************************************************************)
\* Mutant: the VIN of the notification is not compared with the tracker's.
HandleUpdateNoVinCheck(t, vin, descriptor) ==
    IF descriptor \notin LocationDescriptors THEN << >>
    ELSE <<"schedule_update_ha_state">>

\* Mutant: only the two coordinate descriptors trigger a refresh.
HandleUpdateCoordinatesOnly(t, vin, descriptor) ==
    IF vin # t THEN << >>
    ELSE IF descriptor \notin {LATITUDE_DESCRIPTOR, LONGITUDE_DESCRIPTOR} THEN << >>
    ELSE <<"schedule_update_ha_state">>

\* _handle_update (lines 115-126): the platform calls it makes.
HandleUpdate(t, vin, descriptor) ==
    IF vin # t THEN << >>
    ELSE IF descriptor \notin LocationDescriptors THEN << >>
    ELSE <<"schedule_update_ha_state">>

\* latitude (lines 145-156).
Latitude(t) ==
    LET lat_state == GetState(t, LATITUDE_DESCRIPTOR)
    IN  IF lat_state.exists /\ ~IsNone(lat_state.value)
        THEN LET f == FloatOf(lat_state.value)
             IN  IF f.ok THEN f.val
                 ELSE IF f.exc \in {"ValueError", "TypeError"} THEN PyNone
                 ELSE Raised(f.exc)
        ELSE PyNone

\* longitude (lines 158-169).
Longitude(t) ==
    LET lon_state == GetState(t, LONGITUDE_DESCRIPTOR)
    IN  IF lon_state.exists /\ ~IsNone(lon_state.value)
        THEN LET f == FloatOf(lon_state.value)
             IN  IF f.ok THEN f.val
                 ELSE IF f.exc \in {"ValueError", "TypeError"} THEN PyNone
                 ELSE Raised(f.exc)
        ELSE PyNone

\* available (lines 171-191): an exception leaving self.latitude or
\* self.longitude leaves available.
Available(t) ==
    LET lat == Latitude(t)
        lon == Longitude(t)
        available == ~IsNone(lat) \/ ~IsNone(lon)
        gps_fix_state == GetState(t, GPS_FIX_STATUS_DESCRIPTOR)
    IN  IF lat.t = "raise" THEN lat
        ELSE IF lon.t = "raise" THEN lon
        ELSE IF gps_fix_state.exists /\ EqualsStr(gps_fix_state.value, NO_FIX)
        THEN PyBool(FALSE)
        ELSE PyBool(available)

\* super().extra_state_attributes: the base entity's attributes, which hold
\* neither "direction" nor "gps_accuracy".
SuperExtraStateAttributes(t) == EmptyDict

\* Mutant: the fix status block is nested under the heading block.
ExtraStateAttributesNested(t) ==
    LET attrs0 == SuperExtraStateAttributes(t)
        heading_state == GetState(t, HEADING_DESCRIPTOR)
        gps_fix_state == GetState(t, GPS_FIX_STATUS_DESCRIPTOR)
    IN  IF heading_state.exists /\ ~IsNone(heading_state.value)
        THEN LET attrs1 == DictSet(attrs0, "direction", heading_state.value)
             IN  IF gps_fix_state.exists /\ ~IsNone(gps_fix_state.value)
                 THEN DictSet(attrs1, "gps_accuracy", gps_fix_state.value)
                 ELSE attrs1
        ELSE attrs0

\* extra_state_attributes (lines 128-143).
ExtraStateAttributes(t) ==
    LET attrs0 == SuperExtraStateAttributes(t)
        heading_state == GetState(t, HEADING_DESCRIPTOR)
        attrs1 == IF heading_state.exists /\ ~IsNone(heading_state.value)
                  THEN DictSet(attrs0, "direction", heading_state.value)
                  ELSE attrs0
        gps_fix_state == GetState(t, GPS_FIX_STATUS_DESCRIPTOR)
    IN  IF gps_fix_state.exists /\ ~IsNone(gps_fix_state.value)
        THEN DictSet(attrs1, "gps_accuracy", gps_fix_state.value)
        ELSE attrs1

\* A property read or a direct call leaves every field but the observation.
Observed(o, t, a, r, d, c) ==
    /\ op' = o
    /\ self' = t
    /\ arg' = a
    /\ ret' = r
    /\ attrs' = d
    /\ calls' = c
    /\ yielded' = NoYield
    /\ entities' = << >>
    /\ addCalls' = << >>

\* Mutant: the parsed coordinate is written back into the cached reading.
ReadLatitudeWriteBack(t) ==
    /\ Observed("latitude", t, NoArg, Latitude(t), EmptyDict, NoCalls)
    /\ cache' = IF Latitude(t).t = "float"
                THEN [cache EXCEPT ![<<t, LATITUDE_DESCRIPTOR>>] = State(Latitude(t))]
                ELSE cache
    /\ UNCHANGED <<unsubscribe, dispatchers>>

ReadLatitude(t) ==
    /\ Observed("latitude", t, NoArg, Latitude(t), EmptyDict, NoCalls)
    /\ UNCHANGED <<cache, unsubscribe, dispatchers>>

ReadLongitude(t) ==
    /\ Observed("longitude", t, NoArg, Longitude(t), EmptyDict, NoCalls)
    /\ UNCHANGED <<cache, unsubscribe, dispatchers>>

ReadAvailable(t) ==
    /\ Observed("available", t, NoArg, Available(t), EmptyDict, NoCalls)
    /\ UNCHANGED <<cache, unsubscribe, dispatchers>>

ReadExtraStateAttributes(t) ==
    /\ Observed("extra_state_attributes", t, NoArg, PyNone, ExtraStateAttributes(t), NoCalls)
    /\ UNCHANGED <<cache, unsubscribe, dispatchers>>

\* _handle_update called with a notification (vin, descriptor).
CallHandleUpdate(t, vin, descriptor) ==
    /\ Observed("_handle_update", t, [vin |-> vin, descriptor |-> descriptor], PyNone,
                EmptyDict, [NoCalls EXCEPT ![t] = HandleUpdate(t, vin, descriptor)])
    /\ UNCHANGED <<cache, unsubscribe, dispatchers>>

\* async_dispatcher_connect(hass, signal_update, self._handle_update) (lines
\* 98-102): homeassistant.helpers.dispatcher keeps one entry per (signal,
\* target), so connecting a connected target again adds nothing.
DispatcherConnect(connected, t) == connected \cup {t}

\* self._unsubscribe() (line 113): the function async_dispatcher_connect
\* returned removes the target's entry; removing an entry that is gone only
\* logs a warning.
DispatcherRemove(connected, t) == connected \ {t}

\* async_added_to_hass (lines 93-108).
AsyncAddedToHass(t) ==
    /\ unsubscribe' = [unsubscribe EXCEPT ![t] = "remove"]
    /\ dispatchers' = DispatcherConnect(dispatchers, t)
    /\ Observed("async_added_to_hass", t, NoArg, PyNone, EmptyDict,
                [NoCalls EXCEPT ![t] = <<"async_dispatcher_connect">>
                                          \o HandleUpdate(t, t, LATITUDE_DESCRIPTOR)
                                          \o HandleUpdate(t, t, LONGITUDE_DESCRIPTOR)])
    /\ UNCHANGED cache

\* Mutant: the stored function is named but not called.
AsyncWillRemoveFromHassNoCall(t) ==
    /\ dispatchers' = dispatchers
    /\ Observed("async_will_remove_from_hass", t, NoArg, PyNone, EmptyDict, NoCalls)
    /\ UNCHANGED <<cache, unsubscribe>>

\* async_will_remove_from_hass (lines 110-113).
AsyncWillRemoveFromHass(t) ==
    /\ IF unsubscribe[t] # "None"
       THEN /\ dispatchers' = DispatcherRemove(dispatchers, t)
            /\ Observed("async_will_remove_from_hass", t, NoArg, PyNone, EmptyDict,
                        [NoCalls EXCEPT ![t] = <<"unsubscribe">>])
       ELSE /\ dispatchers' = dispatchers
            /\ Observed("async_will_remove_from_hass", t, NoArg, PyNone, EmptyDict, NoCalls)
    /\ UNCHANGED <<cache, unsubscribe>>

(***************************************************************************)
(* The coordinator: it stores a reading, and it broadcasts (vin,           *)
(* descriptor) on signal_update to every connected _handle_update.         *)
(***************************************************************************)
CoordinatorStore(vin, descriptor, v) ==
    /\ cache[<<vin, descriptor>>].exists \/ Cardinality(Present) < MaxPresent
    /\ cache' = [cache EXCEPT ![<<vin, descriptor>>] = State(v)]
    /\ Observed("store", "", NoArg, PyNone, EmptyDict, NoCalls)
    /\ UNCHANGED <<unsubscribe, dispatchers>>

DispatcherSend(vin, descriptor) ==
    /\ Observed("dispatcher_send", "", [vin |-> vin, descriptor |-> descriptor], PyNone,
                EmptyDict,
                [t \in VINS |-> IF t \in dispatchers
                                THEN HandleUpdate(t, vin, descriptor)
                                ELSE << >>])
    /\ UNCHANGED <<cache, unsubscribe, dispatchers>>

(***************************************************************************)
(* Specifications.  Init: an empty cache and one constructed tracker per   *)
(* VIN (__init__, lines 77-86: _unsubscribe is None), nothing connected.   *)
(***************************************************************************)
Init ==
    /\ cache = EmptyCache
    /\ unsubscribe = [t \in VINS |-> "None"]
    /\ dispatchers = {}
    /\ op = "init"
    /\ self = ""
    /\ arg = NoArg
    /\ ret = PyNone
    /\ attrs = EmptyDict
    /\ yielded = NoYield
    /\ entities = << >>
    /\ addCalls = << >>
    /\ calls = NoCalls

\* Setup, the update filter and the properties over a cache the coordinator fills.
Next ==
    \/ \E vin \in VINS, d \in LocationDescriptors :
          \E v \in StoredValues(d) : CoordinatorStore(vin, d, v)
    \/ AsyncSetupEntry
    \/ \E t \in VINS, vin \in VINS, d \in DESCS : CallHandleUpdate(t, vin, d)
    \/ \E t \in VINS : ReadLatitude(t)
    \/ \E t \in VINS : ReadLongitude(t)
    \/ \E t \in VINS : ReadAvailable(t)
    \/ \E t \in VINS : ReadExtraStateAttributes(t)

Spec == Init /\ [][Next]_vars

\* The subscription lifecycle of the trackers under broadcasts.
NextLifecycle ==
    \/ \E t \in VINS : AsyncAddedToHass(t)
    \/ \E t \in VINS : AsyncWillRemoveFromHass(t)
    \/ \E vin \in VINS, d \in DESCS : DispatcherSend(vin, d)

SpecLifecycle == Init /\ [][NextLifecycle]_vars

(***************************************************************************)
(* Properties.                                                             *)
(***************************************************************************)
\* A reading of the VIN is cached under the latitude or longitude descriptor.
CoordinateStatePresent(v) ==
    \/ cache[<<v, LATITUDE_DESCRIPTOR>>].exists
    \/ cache[<<v, LONGITUDE_DESCRIPTOR>>].exists

\* The number of trackers of the list constructed with the VIN.
TrackersOf(list, v) == Cardinality({i \in 1..Len(list) : list[i] = v})

\* C1: async_setup_entry creates no tracker for a VIN whose latitude and
\* longitude states are both absent, and when that is so for every yielded
\* VIN it never calls async_add_entities.
C1_NoTrackerWithoutCoordinates ==
    op = "async_setup_entry" =>
        /\ \A v \in VINS : ~CoordinateStatePresent(v) => TrackersOf(entities, v) = 0
        /\ (\A v \in VINS : yielded[v] > 0 => ~CoordinateStatePresent(v))
               => addCalls = << >>

\* C1 witness: a yielded VIN with cached readings but no coordinate reading,
\* and a setup that added nothing.
C1_Witness ==
    /\ op = "async_setup_entry"
    /\ \E v \in VINS :
          /\ yielded[v] > 0
          /\ ~CoordinateStatePresent(v)
          /\ cache[<<v, HEADING_DESCRIPTOR>>].exists
    /\ entities = << >>
    /\ addCalls = << >>

\* C5: async_setup_entry builds exactly one tracker for each yielded VIN that
\* has a latitude or longitude state, however many pairs were yielded for it,
\* none for any other VIN, and calls async_add_entities at most once, with
\* that list.
C5_OneTrackerPerVin ==
    op = "async_setup_entry" =>
        /\ \A v \in VINS :
              TrackersOf(entities, v)
                 = (IF yielded[v] > 0 /\ CoordinateStatePresent(v) THEN 1 ELSE 0)
        /\ Len(addCalls) <= 1
        /\ \A i \in 1..Len(addCalls) :
              /\ addCalls[i] = entities
              /\ \A v \in VINS : TrackersOf(addCalls[i], v) <= 1

\* C5 witness: a VIN with coordinate data yielded more than once, one tracker.
C5_Witness ==
    /\ op = "async_setup_entry"
    /\ \E v \in VINS :
          /\ yielded[v] >= 2
          /\ CoordinateStatePresent(v)
          /\ entities = <<v>>
          /\ addCalls = << <<v>> >>

\* The descriptor a coordinate property reads.
AxisDescriptor(o) == IF o = "latitude" THEN LATITUDE_DESCRIPTOR ELSE LONGITUDE_DESCRIPTOR

\* C2: latitude (longitude) does not raise; over a present value that float()
\* does not convert it returns None, the failure being a ValueError or a
\* TypeError; over a convertible value it returns the float conversion; over
\* an absent state or value it returns None; whatever the other axis holds.
C2_CoordinateParse ==
    op \in {"latitude", "longitude"} =>
        LET st == cache[<<self, AxisDescriptor(op)>>]
            f == FloatOf(st.value)
        IN  /\ ret.t # "raise"
            /\ (~st.exists \/ IsNone(st.value)) => ret = PyNone
            /\ (st.exists /\ ~IsNone(st.value) /\ ~f.ok)
                   => (f.exc \in {"ValueError", "TypeError"} /\ ret = PyNone)
            /\ (st.exists /\ ~IsNone(st.value) /\ f.ok) => ret = f.val
            /\ (st.exists /\ st.value = Str11_5) => ret = PyFloat(1, <<1, 1, 5>>, 2)
            /\ (st.exists /\ st.value = Int48) => ret = PyFloat(1, <<4, 8>>, 2)
            /\ (st.exists /\ st.value \in {PyStr(NO_FIX), PyList}) => ret = PyNone

\* C3: with a fix-status state of value "NO_FIX", available is False whatever
\* the coordinates hold.
C3_NoFixUnavailable ==
    (/\ op = "available"
     /\ cache[<<self, GPS_FIX_STATUS_DESCRIPTOR>>].exists
     /\ cache[<<self, GPS_FIX_STATUS_DESCRIPTOR>>].value = PyStr(NO_FIX))
        => ret = PyBool(FALSE)

\* The stored value of the descriptor parses to a float.
ParsableCoordinate(t, d) ==
    /\ cache[<<t, d>>].exists
    /\ ~IsNone(cache[<<t, d>>].value)
    /\ FloatOf(cache[<<t, d>>].value).ok

\* C6: available is True when a latitude or longitude value parses to float
\* and the fix status is not a state of value "NO_FIX", and False otherwise.
C6_AvailableExactly ==
    op = "available" =>
        ret = PyBool(/\ \/ ParsableCoordinate(self, LATITUDE_DESCRIPTOR)
                        \/ ParsableCoordinate(self, LONGITUDE_DESCRIPTOR)
                     /\ ~(/\ cache[<<self, GPS_FIX_STATUS_DESCRIPTOR>>].exists
                          /\ cache[<<self, GPS_FIX_STATUS_DESCRIPTOR>>].value
                                 = PyStr(NO_FIX)))

\* The operations of device_tracker.py that read the cache.
FileOps ==
    {"async_setup_entry", "_handle_update", "latitude", "longitude", "available",
     "extra_state_attributes"}

\* C9: no operation of the file changes the coordinator's cache.
C9_CacheReadOnly == [][op' \in FileOps => cache' = cache]_vars

\* C9 witness: latitude has parsed a cached string, which is still cached as
\* the string.
C9_Witness ==
    /\ op = "latitude"
    /\ cache[<<self, LATITUDE_DESCRIPTOR>>] = State(Str11_5)
    /\ ret = PyFloat(1, <<1, 1, 5>>, 2)

\* C10: extra_state_attributes holds "direction" exactly when the heading
\* state has a value, and then that value; "gps_accuracy" exactly when the
\* fix-status state has a value, and then that value.
C10_ExtraAttributes ==
    op = "extra_state_attributes" =>
        LET heading == cache[<<self, HEADING_DESCRIPTOR>>]
            fix == cache[<<self, GPS_FIX_STATUS_DESCRIPTOR>>]
        IN  /\ "direction" \in DOMAIN attrs <=> (heading.exists /\ ~IsNone(heading.value))
            /\ "direction" \in DOMAIN attrs => attrs["direction"] = heading.value
            /\ "gps_accuracy" \in DOMAIN attrs <=> (fix.exists /\ ~IsNone(fix.value))
            /\ "gps_accuracy" \in DOMAIN attrs => attrs["gps_accuracy"] = fix.value

\* C10 witness: a fix status and a coordinate but no heading: gps_accuracy
\* alone.
C10_Witness ==
    /\ op = "extra_state_attributes"
    /\ cache[<<self, GPS_FIX_STATUS_DESCRIPTOR>>] = State(PyStr(NO_FIX))
    /\ cache[<<self, LATITUDE_DESCRIPTOR>>].exists
    /\ ~cache[<<self, HEADING_DESCRIPTOR>>].exists
    /\ DOMAIN attrs = {"gps_accuracy"}
    /\ attrs["gps_accuracy"] = PyStr(NO_FIX)

\* The broadcast is for the tracker: its VIN and one of the four location
\* descriptors.
Matches(t, a) ==
    /\ a.vin = t
    /\ a.descriptor \in {LATITUDE_DESCRIPTOR, LONGITUDE_DESCRIPTOR,
                         HEADING_DESCRIPTOR, GPS_FIX_STATUS_DESCRIPTOR}

\* C4: a broadcast for another VIN or for a descriptor outside the four
\* location descriptors triggers no refresh on the tracker and leaves its
\* state as it was.
C4_UnrelatedBroadcastIgnored ==
    [][op' = "dispatcher_send" =>
          \A t \in VINS :
              ~Matches(t, arg') =>
                  /\ calls'[t] = << >>
                  /\ unsubscribe'[t] = unsubscribe[t]
                  /\ (t \in dispatchers') = (t \in dispatchers)]_vars

\* C4 witness: one broadcast reaching two connected trackers, the wrong VIN
\* for one and the wrong descriptor for the other.
C4_Witness ==
    /\ op = "dispatcher_send"
    /\ arg.descriptor = OTHER_DESCRIPTOR
    /\ dispatchers = VINS
    /\ \E t \in VINS : arg.vin = t
    /\ \E t \in VINS : arg.vin # t
    /\ \A t \in VINS : calls[t] = << >>

\* C7: a connected tracker makes exactly one refresh for each broadcast for
\* its VIN and a location descriptor; async_added_to_hass connects first and
\* then makes the two initial refreshes, and leaves the tracker connected.
C7_RefreshPerBroadcast ==
    /\ op = "dispatcher_send" =>
          \A t \in dispatchers :
              Matches(t, arg) => calls[t] = <<"schedule_update_ha_state">>
    /\ op = "async_added_to_hass" =>
          /\ calls[self] = <<"async_dispatcher_connect", "schedule_update_ha_state",
                             "schedule_update_ha_state">>
          /\ self \in dispatchers

\* C7 witness: a heading broadcast refreshing the connected tracker of the VIN.
C7_Witness ==
    /\ op = "dispatcher_send"
    /\ arg.descriptor = HEADING_DESCRIPTOR
    /\ arg.vin \in dispatchers
    /\ calls[arg.vin] = <<"schedule_update_ha_state">>

\* C8: after async_will_remove_from_hass the tracker is not connected, a
\* tracker that is not connected gets no refresh from a broadcast, and the
\* removal of a tracker that was never added calls nothing.
C8_UnsubscribedOnRemove ==
    /\ op = "async_will_remove_from_hass" =>
          /\ self \notin dispatchers
          /\ calls[self] = (IF unsubscribe[self] = "None" THEN << >> ELSE <<"unsubscribe">>)
    /\ op = "dispatcher_send" => \A t \in VINS \ dispatchers : calls[t] = << >>
    /\ \A t \in VINS : unsubscribe[t] = "None" => t \notin dispatchers

\* C8 witness: a tracker that was added and removed, and a later broadcast for
\* its own latitude that refreshes nothing.
C8_Witness ==
    /\ op = "dispatcher_send"
    /\ arg.descriptor = LATITUDE_DESCRIPTOR
    /\ unsubscribe[arg.vin] # "None"
    /\ arg.vin \notin dispatchers
    /\ calls[arg.vin] = << >>

====
